---------------------------- MODULE Spec2Model ----------------------------
(***************************************************************************)
(* A model of the control-flow primitives of src/src/function.rs:          *)
(* with_retry, Debouncer, Throttler and Poller.                            *)
(*                                                                         *)
(* Every controller call is an async fn: it is modelled as a frame with a  *)
(* program counter, and one action per stretch of code between two points  *)
(* where other tasks can run (an await, a lock acquisition, a clock read). *)
(* Time is a discrete monotonic clock; tokio's sleep returns no earlier    *)
(* than its deadline.  The operation passed to with_retry is an            *)
(* environment choice: each invocation returns a value of Vals or an error *)
(* of Errs.  The operation passed to an execute call returns that call's   *)
(* own value.                                                              *)
(***************************************************************************)
EXTENDS Integers, Sequences, FiniteSets, TLC

(***************************************************************************)
(* Bounds of the model.                                                    *)
(***************************************************************************)
\* Width in bits of the modelled usize (the machine word, scaled down).
UsizeBits == 2
\* Largest policy.delay / wait_duration, in clock ticks.
MaxDelay == 1
MaxWait == 2
\* The clock runs from 0 to MaxTime.
MaxTime == 3
\* Number of execute (or start) calls made on one controller.
NumCalls == 2
\* The start calls on one Poller invoke the task at most this many times
\* inside their loops, all together.
MaxTasks == 4
\* max_retries and max_executions are 0 .. MaxBudget or usize::MAX.
MaxBudget == 1

UsizeMax == 2 ^ UsizeBits - 1
Usize == 0 .. UsizeMax
\* with_retry never needs more invocations than this to show every outcome:
\* max_retries + 1 attempts, and the attempts after a wrapped counter.
MaxInvocations == UsizeMax + 3

Vals == {"v1", "v2"}
Errs == {"e1", "e2"}
None == "None"
\* Option<Instant>: None is the empty sequence, Some(t) the sequence <<t>>.
NoInstant == <<>>
Some(t) == <<t>>
InstantOf(o) == o[1]
Calls == 1 .. NumCalls
\* Every execute call passes its own operation: call c's returns FuncValue(c).
FuncValue(c) == "v" \o ToString(c)

VARIABLES
    retry,      \* the frame of one with_retry call
    retry_obs,  \* what the environment observed of it: invocations, sleeps
    clock,      \* the monotonic clock (Instant::now())
    debouncer,  \* the Debouncer's fields
    deb_calls,  \* the frames of the execute calls made on it
    throttler,  \* the Throttler's fields
    thr_calls,  \* the frames of the execute calls made on it
    poller,     \* the Poller's fields
    poll_calls, \* the frames of the start calls made on it
    poll_env    \* their environment: the stop_condition they are given and
                \* the task invocations observed

retryVars == <<retry, retry_obs>>
debVars == <<debouncer, deb_calls>>
thrVars == <<throttler, thr_calls>>
pollVars == <<poller, poll_calls, poll_env>>
vars == <<retry, retry_obs, clock, debouncer, deb_calls, throttler, thr_calls,
          poller, poll_calls, poll_env>>

(***************************************************************************)
(* Results.                                                                *)
(***************************************************************************)
NoResult == [tag |-> "None", val |-> None]
Ok(v) == [tag |-> "Ok", val |-> v]
\* FunctionError::General(msg), FunctionError::RetryExhausted(msg)
General(msg) == [tag |-> "General", val |-> msg]
RetryExhausted(msg) == [tag |-> "RetryExhausted", val |-> msg]
PollingError(msg) == [tag |-> "PollingError", val |-> msg]

(***************************************************************************)
(* with_retry                                                              *)
(***************************************************************************)
\* format!("Function failed after {} retries. Last error: {}", ...)
RetryMessage_Attempts(max_retries, last_error) ==
    [retries |-> max_retries + 1,
     last |-> IF last_error = None THEN "Unknown error" ELSE last_error]

RetryMessage(max_retries, last_error) ==
    [retries |-> max_retries,
     last |-> IF last_error = None THEN "Unknown error" ELSE last_error]

\* while retry_count <= options.max_retries
RetryLoopCond(retry_count, max_retries) == retry_count <= max_retries

\* if retry_count <= options.max_retries && options.delay > Duration::from_millis(0)
RetryShouldSleep_Always(retry_count, max_retries, delay) == delay > 0

RetryShouldSleep(retry_count, max_retries, delay) ==
    retry_count <= max_retries /\ delay > 0

RetryInit ==
    /\ retry \in [options : [max_retries : Usize, delay : 0 .. MaxDelay],
                  overflow_checks : BOOLEAN,
                  retry_count : {0},
                  last_error : {None},
                  pc : {"while"},
                  result : {NoResult}]
    /\ retry_obs = [invocations |-> 0, errors |-> <<>>, ok |-> <<>>,
                    sleeps |-> 0, slept_after |-> {}]

\* The loop condition: enter the body, or leave the loop and return the error.
RetryWhile ==
    /\ retry.pc = "while"
    /\ IF RetryLoopCond(retry.retry_count, retry.options.max_retries)
       THEN /\ retry_obs.invocations < MaxInvocations
            /\ retry' = [retry EXCEPT !.pc = "func"]
       ELSE retry' = [retry EXCEPT
                !.pc = "done",
                !.result = RetryExhausted(
                    RetryMessage(retry.options.max_retries, retry.last_error))]
    /\ UNCHANGED retry_obs

\* func().await returns Ok(result): return Ok(result).
\* retry_obs.ok notes the first successful invocation: its index and value.
RetryFuncOk_Continue ==
    /\ retry.pc = "func"
    /\ \E v \in Vals :
        /\ retry' = [retry EXCEPT !.pc = "while", !.result = Ok(v)]
        /\ retry_obs' = [retry_obs EXCEPT
                !.invocations = @ + 1,
                !.ok = IF @ = <<>> THEN <<retry_obs.invocations + 1, v>> ELSE @]

RetryFuncOk ==
    /\ retry.pc = "func"
    /\ \E v \in Vals :
        /\ retry' = [retry EXCEPT !.pc = "done", !.result = Ok(v)]
        /\ retry_obs' = [retry_obs EXCEPT
                !.invocations = @ + 1,
                !.ok = IF @ = <<>> THEN <<retry_obs.invocations + 1, v>> ELSE @]

\* func().await returns Err(error): last_error = Some(error); retry_count += 1
\* and the decision to sleep.  retry_count is a usize: the addition overflows at
\* UsizeMax, which panics in a build with overflow checks and wraps in one
\* without.
RetryFuncErr ==
    /\ retry.pc = "func"
    /\ \E e \in Errs :
        /\ retry_obs' = [retry_obs EXCEPT !.invocations = @ + 1,
                                          !.errors = Append(@, e)]
        /\ IF retry.retry_count = UsizeMax /\ retry.overflow_checks
           THEN retry' = [retry EXCEPT !.last_error = e, !.pc = "panicked"]
           ELSE LET next == (retry.retry_count + 1) % (UsizeMax + 1)
                IN retry' = [retry EXCEPT
                        !.last_error = e,
                        !.retry_count = next,
                        !.pc = IF RetryShouldSleep(next,
                                     retry.options.max_retries,
                                     retry.options.delay)
                               THEN "sleep" ELSE "while"]

\* sleep(options.delay).await
RetrySleep ==
    /\ retry.pc = "sleep"
    /\ retry' = [retry EXCEPT !.pc = "while"]
    /\ retry_obs' = [retry_obs EXCEPT
            !.sleeps = @ + 1,
            !.slept_after = @ \cup {retry_obs.invocations}]



(***************************************************************************)
(* The clock                                                               *)
(***************************************************************************)
\* Instant::elapsed / Instant::duration_since: saturating at zero.
DurationSince(later, earlier) == IF later >= earlier THEN later - earlier ELSE 0

Tick ==
    /\ clock < MaxTime
    /\ clock' = clock + 1

(***************************************************************************)
(* Debouncer                                                               *)
(***************************************************************************)
DebIdleFrame ==
    [pc |-> "idle", now |-> 0, deadline |-> 0, result |-> NoResult,
     \* observations of the call, not read by the code
     invoked |-> 0, slept |-> FALSE,
     cancel_before_wake |-> FALSE, after_failure |-> FALSE,
     superseded |-> FALSE]

\* Debouncer::new, for every wait_duration and options.  last_call is a
\* Mutex<Option<Instant>>: its value and the call whose MutexGuard is alive
\* (0 for none).  Mutex::lock waits while a guard is alive.
DebInit ==
    /\ debouncer \in [last_call : {NoInstant},
                      last_call_held_by : {0},
                      wait_duration : 0 .. MaxWait,
                      options : [leading : BOOLEAN, trailing : BOOLEAN],
                      is_cancelled : {FALSE}]
    /\ deb_calls = [c \in Calls |-> DebIdleFrame]

\* let should_execute = { if let Some(_last) = *last_call
\*     { now.elapsed() >= self.wait_duration } else { false } };
\* `now` is the call's own start time, `at` the clock when this is evaluated.
DebShouldExecute_Strict(last_call, now, at, wait_duration) ==
    IF last_call # NoInstant
    THEN DurationSince(at, now) > wait_duration
    ELSE FALSE

DebShouldExecute(last_call, now, at, wait_duration) ==
    IF last_call # NoInstant
    THEN DurationSince(at, now) >= wait_duration
    ELSE FALSE

\* if self.options.leading { return Ok(func().await); }
DebTakesLeadingPath_Never(options) == FALSE

DebTakesLeadingPath(options) == options.leading

\* if self.is_cancelled.load(Ordering::Relaxed) { return Err(...) }
DebSeesCancelled_Never(is_cancelled) == FALSE

DebSeesCancelled(is_cancelled) == is_cancelled

\* let now = Instant::now();
\* The calls are numbered in the order in which they are made.  The
\* observation notes whether an earlier call has already returned an error.
DebExecuteNow(c) ==
    /\ deb_calls[c].pc = "idle"
    /\ \A b \in Calls : b < c => deb_calls[b].pc # "idle"
    /\ deb_calls' = [deb_calls EXCEPT
            ![c].pc = "record",
            ![c].now = clock,
            ![c].after_failure =
                \E b \in Calls : /\ deb_calls[b].pc = "done"
                                 /\ deb_calls[b].result.tag # "Ok"]
    /\ UNCHANGED <<debouncer, clock>>

\* The observation made when call c records its timestamp: the calls still
\* suspended in their wait, and made less than wait before c, are superseded.
DebSupersede(calls, c) ==
    [b \in Calls |->
        IF /\ b < c
           /\ calls[b].pc = "sleep"
           /\ calls[c].now < calls[b].now + debouncer.wait_duration
        THEN [calls[b] EXCEPT !.superseded = TRUE]
        ELSE calls[b]]

DebExecuteRecord_LeadingUnrecorded(c) ==
    /\ deb_calls[c].pc = "record"
    /\ debouncer.last_call_held_by = 0
    /\ IF DebTakesLeadingPath(debouncer.options)
       THEN /\ deb_calls' = [DebSupersede(deb_calls, c) EXCEPT
                    ![c].pc = "func",
                    ![c].invoked = @ + 1]
            /\ UNCHANGED debouncer
       ELSE /\ deb_calls' = [DebSupersede(deb_calls, c) EXCEPT
                    ![c].pc = "sleep",
                    ![c].deadline = clock + debouncer.wait_duration]
            /\ debouncer' = [debouncer EXCEPT
                    !.last_call = Some(deb_calls[c].now)]
    /\ UNCHANGED clock

DebExecuteRecord_KeepsGuard(c) ==
    /\ deb_calls[c].pc = "record"
    /\ debouncer.last_call_held_by = 0
    /\ debouncer' = [debouncer EXCEPT !.last_call = Some(deb_calls[c].now),
                                      !.last_call_held_by = c]
    /\ IF DebTakesLeadingPath(debouncer.options)
       THEN deb_calls' = [DebSupersede(deb_calls, c) EXCEPT
                ![c].pc = "func",
                ![c].invoked = @ + 1]
       ELSE deb_calls' = [DebSupersede(deb_calls, c) EXCEPT
                ![c].pc = "sleep",
                ![c].deadline = clock + debouncer.wait_duration]
    /\ UNCHANGED clock

DebExecuteRecord_ChecksCancel(c) ==
    /\ deb_calls[c].pc = "record"
    /\ debouncer.last_call_held_by = 0
    /\ debouncer' = [debouncer EXCEPT !.last_call = Some(deb_calls[c].now),
                                      !.last_call_held_by = 0]
    /\ IF DebSeesCancelled(debouncer.is_cancelled)
       THEN deb_calls' = [DebSupersede(deb_calls, c) EXCEPT
                ![c].pc = "done",
                ![c].result = General("Debouncer was cancelled")]
       ELSE IF DebTakesLeadingPath(debouncer.options)
       THEN deb_calls' = [DebSupersede(deb_calls, c) EXCEPT
                ![c].pc = "func",
                ![c].invoked = @ + 1]
       ELSE deb_calls' = [DebSupersede(deb_calls, c) EXCEPT
                ![c].pc = "sleep",
                ![c].deadline = clock + debouncer.wait_duration]
    /\ UNCHANGED clock

\* { *last_call = Some(now); } and then either the leading path, which invokes
\* func at once, or sleep(self.wait_duration), whose deadline is counted from
\* the moment sleep is called.  The guard is taken and dropped inside the
\* braces, before the await.
DebExecuteRecord(c) ==
    /\ deb_calls[c].pc = "record"
    /\ debouncer.last_call_held_by = 0
    /\ debouncer' = [debouncer EXCEPT !.last_call = Some(deb_calls[c].now),
                                      !.last_call_held_by = 0]
    /\ IF DebTakesLeadingPath(debouncer.options)
       THEN deb_calls' = [DebSupersede(deb_calls, c) EXCEPT
                ![c].pc = "func",
                ![c].invoked = @ + 1]
       ELSE deb_calls' = [DebSupersede(deb_calls, c) EXCEPT
                ![c].pc = "sleep",
                ![c].deadline = clock + debouncer.wait_duration]
    /\ UNCHANGED clock

\* sleep(self.wait_duration).await completes, which drops the Sleep future
\* and its deadline, and is_cancelled is loaded.
DebExecuteWake_Rearm(c) ==
    /\ deb_calls[c].pc = "sleep"
    /\ clock >= deb_calls[c].deadline
    /\ IF DebSeesCancelled(debouncer.is_cancelled)
       THEN deb_calls' = [deb_calls EXCEPT
                ![c].pc = "done",
                ![c].slept = TRUE,
                ![c].deadline = 0,
                ![c].result = General("Debouncer was cancelled")]
       ELSE deb_calls' = [deb_calls EXCEPT ![c].pc = "decide",
                                           ![c].slept = TRUE,
                                           ![c].deadline = 0]
    /\ debouncer' = [debouncer EXCEPT !.is_cancelled = FALSE]
    /\ UNCHANGED clock

DebExecuteWake(c) ==
    /\ deb_calls[c].pc = "sleep"
    /\ clock >= deb_calls[c].deadline
    /\ IF DebSeesCancelled(debouncer.is_cancelled)
       THEN deb_calls' = [deb_calls EXCEPT
                ![c].pc = "done",
                ![c].slept = TRUE,
                ![c].deadline = 0,
                ![c].result = General("Debouncer was cancelled")]
       ELSE deb_calls' = [deb_calls EXCEPT ![c].pc = "decide",
                                           ![c].slept = TRUE,
                                           ![c].deadline = 0]
    /\ UNCHANGED <<debouncer, clock>>

\* should_execute under the last_call lock, then
\* if should_execute && self.options.trailing { Ok(func().await) } else { Err }
DebExecuteDecide(c) ==
    /\ deb_calls[c].pc = "decide"
    /\ debouncer.last_call_held_by = 0
    /\ IF /\ DebShouldExecute(debouncer.last_call, deb_calls[c].now, clock,
                              debouncer.wait_duration)
          /\ debouncer.options.trailing
       THEN deb_calls' = [deb_calls EXCEPT ![c].pc = "func",
                                           ![c].invoked = @ + 1]
       ELSE deb_calls' = [deb_calls EXCEPT
                ![c].pc = "done",
                ![c].result = General("Function execution was debounced")]
    /\ UNCHANGED <<debouncer, clock>>

\* func().await completes with its value, which execute returns as Ok.
DebFuncReturn_Again(c) ==
    /\ deb_calls[c].pc = "func"
    /\ deb_calls' = [deb_calls EXCEPT ![c].pc = "decide"]
    /\ UNCHANGED <<debouncer, clock>>

DebFuncReturn(c) ==
    /\ deb_calls[c].pc = "func"
    /\ deb_calls' = [deb_calls EXCEPT ![c].pc = "done",
                                       ![c].result = Ok(FuncValue(c))]
    /\ UNCHANGED <<debouncer, clock>>

\* Debouncer::cancel.  The observation notes the calls that have not yet
\* finished their wait suspension.
DebCancel ==
    /\ debouncer' = [debouncer EXCEPT !.is_cancelled = TRUE]
    /\ deb_calls' = [c \in Calls |->
            IF deb_calls[c].pc \in {"idle", "record", "sleep"}
            THEN [deb_calls[c] EXCEPT !.cancel_before_wake = TRUE]
            ELSE deb_calls[c]]
    /\ UNCHANGED clock

\* Debouncer::is_pending, evaluated at clock value `at`:
\*   if let Some(last) = *last_call { last.elapsed() < self.wait_duration }
\*   else { false }
DebIsPending(last_call, at, wait_duration) ==
    IF last_call # NoInstant
    THEN DurationSince(at, InstantOf(last_call)) < wait_duration
    ELSE FALSE

\* is_pending starts with self.last_call.lock(): it waits while a guard of
\* last_call is alive.
DebIsPendingWaits == debouncer.last_call_held_by # 0

(***************************************************************************)
(* Throttler                                                               *)
(***************************************************************************)
ThrIdleFrame ==
    [pc |-> "idle", now |-> 0, result |-> NoResult,
     \* observations of the call, not read by the code
     invoked |-> 0, decided |-> FALSE,
     seen_last |-> NoInstant]

\* Throttler::new, for every wait_duration and options.
ThrInit ==
    /\ throttler \in [last_execution : {NoInstant},
                      last_execution_held_by : {0},
                      wait_duration : 0 .. MaxWait,
                      options : [leading : BOOLEAN, trailing : BOOLEAN],
                      is_cancelled : {FALSE}]
    /\ thr_calls = [c \in Calls |-> ThrIdleFrame]

\* The block under the last_execution lock: the decision and the timestamp it
\* leaves behind.
ThrDecision_NoWindow(last_execution, now, wait_duration, leading) ==
    IF last_execution # NoInstant
    THEN [execute |-> TRUE, last_execution |-> Some(now)]
    ELSE [execute |-> leading, last_execution |-> Some(now)]

ThrDecision_FirstUnrecorded(last_execution, now, wait_duration, leading) ==
    IF last_execution # NoInstant
    THEN IF DurationSince(now, InstantOf(last_execution)) >= wait_duration
         THEN [execute |-> TRUE, last_execution |-> Some(now)]
         ELSE [execute |-> FALSE, last_execution |-> last_execution]
    ELSE [execute |-> leading, last_execution |-> NoInstant]

ThrDecision_FirstAlwaysRuns(last_execution, now, wait_duration, leading) ==
    IF last_execution # NoInstant
    THEN IF DurationSince(now, InstantOf(last_execution)) >= wait_duration
         THEN [execute |-> TRUE, last_execution |-> Some(now)]
         ELSE [execute |-> FALSE, last_execution |-> last_execution]
    ELSE [execute |-> TRUE, last_execution |-> Some(now)]

ThrDecision_RefreshOnReject(last_execution, now, wait_duration, leading) ==
    IF last_execution # NoInstant
    THEN IF DurationSince(now, InstantOf(last_execution)) >= wait_duration
         THEN [execute |-> TRUE, last_execution |-> Some(now)]
         ELSE [execute |-> FALSE, last_execution |-> Some(now)]
    ELSE [execute |-> leading, last_execution |-> Some(now)]

ThrDecision_StrictWindow(last_execution, now, wait_duration, leading) ==
    IF last_execution # NoInstant
    THEN IF DurationSince(now, InstantOf(last_execution)) > wait_duration
         THEN [execute |-> TRUE, last_execution |-> Some(now)]
         ELSE [execute |-> FALSE, last_execution |-> last_execution]
    ELSE [execute |-> leading, last_execution |-> Some(now)]

ThrDecision(last_execution, now, wait_duration, leading) ==
    IF last_execution # NoInstant
    THEN IF DurationSince(now, InstantOf(last_execution)) >= wait_duration
         THEN [execute |-> TRUE, last_execution |-> Some(now)]
         ELSE [execute |-> FALSE, last_execution |-> last_execution]
    ELSE [execute |-> leading, last_execution |-> Some(now)]

\* The test at the head of execute: self.is_cancelled.load(..)
ThrSeesCancelled_Never(is_cancelled) == FALSE

ThrSeesCancelled(is_cancelled) == is_cancelled

\* if self.is_cancelled.load(..) { return Err(..) }  let now = Instant::now();
\* Two reads with no write between them.
\* The calls are numbered in the order in which they are made.
ThrExecuteStart(c) ==
    /\ thr_calls[c].pc = "idle"
    /\ \A b \in Calls : b < c => thr_calls[b].pc # "idle"
    /\ IF ThrSeesCancelled(throttler.is_cancelled)
       THEN thr_calls' = [thr_calls EXCEPT
                ![c].pc = "done",
                ![c].result = General("Throttler was cancelled")]
       ELSE thr_calls' = [thr_calls EXCEPT ![c].pc = "decide", ![c].now = clock]
    /\ UNCHANGED <<throttler, clock>>

\* let should_execute = { lock; compare; update };
\* if should_execute { Ok(func().await) } else { Err(..) }
ThrExecuteDecide(c) ==
    /\ thr_calls[c].pc = "decide"
    /\ throttler.last_execution_held_by = 0
    /\ LET d == ThrDecision(throttler.last_execution, thr_calls[c].now,
                            throttler.wait_duration, throttler.options.leading)
       IN /\ throttler' = [throttler EXCEPT
                                !.last_execution = d.last_execution,
                                !.last_execution_held_by = 0]
          /\ IF d.execute
             THEN thr_calls' = [thr_calls EXCEPT
                      ![c].pc = "func",
                      ![c].invoked = @ + 1,
                      ![c].decided = TRUE,
                      ![c].seen_last = throttler.last_execution]
             ELSE thr_calls' = [thr_calls EXCEPT
                      ![c].pc = "done",
                      ![c].decided = TRUE,
                      ![c].seen_last = throttler.last_execution,
                      ![c].result = General("Function execution was throttled")]
    /\ UNCHANGED clock

ThrFuncReturn_CancelAware(c) ==
    /\ thr_calls[c].pc = "func"
    /\ thr_calls' = [thr_calls EXCEPT
            ![c].pc = "done",
            ![c].result = IF throttler.is_cancelled
                          THEN General("Throttler was cancelled")
                          ELSE Ok(FuncValue(c))]
    /\ UNCHANGED <<throttler, clock>>

\* func().await completes with its value, which execute returns as Ok.
ThrFuncReturn(c) ==
    /\ thr_calls[c].pc = "func"
    /\ thr_calls' = [thr_calls EXCEPT ![c].pc = "done",
                                       ![c].result = Ok(FuncValue(c))]
    /\ UNCHANGED <<throttler, clock>>

\* Throttler::cancel
ThrCancel ==
    /\ throttler' = [throttler EXCEPT !.is_cancelled = TRUE]
    /\ UNCHANGED <<thr_calls, clock>>

(***************************************************************************)
(* Poller                                                                  *)
(*                                                                         *)
(* The task passed to start is an environment choice: each invocation      *)
(* returns Ok with a value of Vals or an error.  The stop_condition passed *)
(* to start is the set of values it accepts, the same for every start call *)
(* of a behaviour.  start reads a task value                               *)
(* through stop_condition only, so one value outside the set stands for    *)
(* all of them.  sleep(interval) is a point where other tasks run; its     *)
(* length decides nothing in start.                                        *)
(***************************************************************************)
\* The stop conditions a start call can be given: never true, true of "v2".
StopSets == {{}, {"v2"}}
PollTaskErr == [tag |-> "Err", val |-> None]
TaskOutcomes(stop_on) == {Ok(v) : v \in {"v1"} \cup stop_on} \cup {PollTaskErr}

PollIdleFrame ==
    [pc |-> "idle", result |-> NoResult,
     \* observations of the call, not read by the code
     satisfied |-> NoResult,  \* first task outcome that satisfied
                              \* stop_condition, if any
     satisfied_in |-> None,   \* where: "immediate" or "loop"
     slept |-> FALSE]         \* an interval sleep has completed

\* The values of max_retries and max_executions: small ones and usize::MAX,
\* the default of max_executions.
PollBudgets == (0 .. MaxBudget) \cup {UsizeMax}

\* Poller::new, for every PollingOptions.  The build has overflow checks or
\* not: which, shows at the first overflow only, and is "unobserved" until
\* then.  A Mutex is poisoned by a panic of the thread holding it.  For each
\* Mutex the call whose MutexGuard is alive is kept (0 for none); every guard
\* of start is dropped at the end of the block or match arm that took it, or
\* by the unwinding of a panic.
PollInit ==
    /\ poller \in [options : [max_retries : PollBudgets,
                              quit_on_error : BOOLEAN,
                              immediate : BOOLEAN,
                              max_executions : PollBudgets],
                   build : {"unobserved"},
                   is_active : {FALSE},
                   retry_count : {0},
                   execution_count : {0},
                   retry_held_by : {0},
                   execution_held_by : {0},
                   retry_poisoned : {FALSE},
                   execution_poisoned : {FALSE}]
    /\ poll_calls = [c \in Calls |-> PollIdleFrame]
    /\ poll_env \in [stop_on : StopSets, tasks : {0}]

\* `*count += 1` on a usize: at UsizeMax it panics in a build with overflow
\* checks and wraps to 0 in one without.
PollIncrement(count, build) ==
    IF count = UsizeMax
    THEN IF build = "checked"
         THEN [panic |-> TRUE, val |-> count, build |-> build]
         ELSE [panic |-> FALSE, val |-> 0, build |-> build]
    ELSE [panic |-> FALSE, val |-> count + 1, build |-> build]

\* The outcomes of an increment: one, but for the first overflow, where the
\* build shows.
PollIncrements(count, build) ==
    IF count = UsizeMax /\ build = "unobserved"
    THEN {PollIncrement(count, b) : b \in {"checked", "wrapping"}}
    ELSE {PollIncrement(count, build)}

\* stop_condition(&result)
PollStopCondition_Never(stop_on, v) == FALSE

PollStopCondition(stop_on, v) == v \in stop_on

\* while self.is_active.load(..), and the same load after the sleep
PollLoopCond_Always(is_active) == TRUE

PollLoopCond(is_active) == is_active

\* if execution_count > self.options.max_executions { break; }
PollExceeded_OffByOne(execution_count, max_executions) ==
    execution_count > max_executions + 1

PollExceeded(execution_count, max_executions) == execution_count > max_executions

\* if self.options.quit_on_error && retry_count >= self.options.max_retries
PollQuits_Strict(quit_on_error, retry_count, max_retries) ==
    quit_on_error /\ retry_count > max_retries

PollQuits_Never(quit_on_error, retry_count, max_retries) ==
    quit_on_error /\ retry_count > UsizeMax

PollQuits(quit_on_error, retry_count, max_retries) ==
    quit_on_error /\ retry_count >= max_retries

PollStopped == PollingError("Polling stopped")
PollMaxRetries == PollingError("Max retries exceeded")

\* The environment's record of an Ok outcome o of call c's task: the first
\* one that satisfies the stop_condition is kept, whatever start does next.
PollObserve(calls, c, o, where) ==
    IF o.val \in poll_env.stop_on /\ calls[c].satisfied = NoResult
    THEN [calls EXCEPT ![c].satisfied = o, ![c].satisfied_in = where]
    ELSE calls

\* start, up to the first await: self.is_active.store(true, ..); with
\* immediate the task is invoked.  The calls are numbered in call order.
PollStart(c) ==
    /\ poll_calls[c].pc = "idle"
    /\ \A b \in Calls : b < c => poll_calls[b].pc # "idle"
    /\ poll_calls' = [poll_calls EXCEPT
            ![c].pc = IF poller.options.immediate THEN "itask" ELSE "while"]
    /\ poller' = [poller EXCEPT !.is_active = TRUE]
    /\ UNCHANGED poll_env

\* The immediate task().await completes: Ok(result) returns it if
\* stop_condition holds; Err(_) locks retry_count and increments it.
PollImmediateReturn(c) ==
    /\ poll_calls[c].pc = "itask"
    /\ \E o \in TaskOutcomes(poll_env.stop_on) :
        IF o.tag = "Ok"
        THEN /\ IF PollStopCondition(poll_env.stop_on, o.val)
                THEN poll_calls' = [PollObserve(poll_calls, c, o, "immediate")
                                    EXCEPT ![c].pc = "done",
                                           ![c].result = Ok(o.val)]
                ELSE poll_calls' = [PollObserve(poll_calls, c, o, "immediate")
                                    EXCEPT ![c].pc = "while"]
             /\ UNCHANGED poller
        ELSE \E inc \in PollIncrements(poller.retry_count, poller.build) :
             LET panics == poller.retry_poisoned \/ inc.panic
             IN /\ poller.retry_held_by = 0
                /\ poll_calls' = [poll_calls EXCEPT
                        ![c].pc = IF panics THEN "panicked" ELSE "while"]
                /\ poller' = IF poller.retry_poisoned THEN poller
                             ELSE [poller EXCEPT !.retry_count = inc.val,
                                                 !.build = inc.build,
                                                 !.retry_poisoned = inc.panic,
                                                 !.retry_held_by = 0]
    /\ UNCHANGED poll_env

\* The head of a loop iteration, up to the sleep:
\*   while self.is_active.load(..) {
\*     let execution_count = { lock; *count += 1; *count };
\*     if execution_count > max_executions { break; }
\*     sleep(interval)
\* and after the loop Err(PollingError("Polling stopped")).  The load and the
\* locked increment touch different fields and nothing else runs between
\* them in this call, so they are one step.
PollLoopHead(c) ==
    /\ poll_calls[c].pc = "while"
    /\ IF PollLoopCond(poller.is_active)
       THEN /\ poll_env.tasks < MaxTasks
            /\ \E inc \in PollIncrements(poller.execution_count, poller.build) :
               LET panics == poller.execution_poisoned \/ inc.panic
               IN /\ poller.execution_held_by = 0
                  /\ poller' = IF poller.execution_poisoned THEN poller
                               ELSE [poller EXCEPT
                                        !.execution_count = inc.val,
                                        !.build = inc.build,
                                        !.execution_poisoned = inc.panic,
                                        !.execution_held_by = 0]
                  /\ IF panics
                     THEN poll_calls' = [poll_calls EXCEPT ![c].pc = "panicked"]
                     ELSE IF PollExceeded(inc.val, poller.options.max_executions)
                     THEN poll_calls' = [poll_calls EXCEPT
                                            ![c].pc = "done",
                                            ![c].result = PollStopped]
                     ELSE poll_calls' = [poll_calls EXCEPT ![c].pc = "sleep"]
       ELSE /\ poll_calls' = [poll_calls EXCEPT ![c].pc = "done",
                                                ![c].result = PollStopped]
            /\ UNCHANGED poller
    /\ UNCHANGED poll_env

PollWake_NoRecheck(c) ==
    /\ poll_calls[c].pc = "sleep"
    /\ poll_calls' = [poll_calls EXCEPT ![c].pc = "task", ![c].slept = TRUE]
    /\ poll_env' = [poll_env EXCEPT !.tasks = @ + 1]
    /\ UNCHANGED poller

\* sleep(interval).await completes; if !self.is_active.load(..) { break; }
\* otherwise the task is invoked.
PollWake(c) ==
    /\ poll_calls[c].pc = "sleep"
    /\ IF PollLoopCond(poller.is_active)
       THEN /\ poll_calls' = [poll_calls EXCEPT ![c].pc = "task",
                                                ![c].slept = TRUE]
            /\ poll_env' = [poll_env EXCEPT !.tasks = @ + 1]
       ELSE /\ poll_calls' = [poll_calls EXCEPT ![c].pc = "done",
                                                ![c].slept = TRUE,
                                                ![c].result = PollStopped]
            /\ UNCHANGED poll_env
    /\ UNCHANGED poller

\* task().await completes inside the loop.  Ok(result) with stop_condition
\* true stores is_active = false and returns it.  Err(_) locks retry_count
\* and increments it; with quit_on_error and the count at max_retries it
\* stores is_active = false and returns Err("Max retries exceeded").  The
\* store follows the increment with nothing of this call between them.
PollTaskReturn(c) ==
    /\ poll_calls[c].pc = "task"
    /\ \E o \in TaskOutcomes(poll_env.stop_on) :
        IF o.tag = "Ok"
        THEN IF PollStopCondition(poll_env.stop_on, o.val)
             THEN /\ poll_calls' = [PollObserve(poll_calls, c, o, "loop")
                                    EXCEPT ![c].pc = "done",
                                           ![c].result = Ok(o.val)]
                  /\ poller' = [poller EXCEPT !.is_active = FALSE]
             ELSE /\ poll_calls' = [PollObserve(poll_calls, c, o, "loop")
                                    EXCEPT ![c].pc = "while"]
                  /\ UNCHANGED poller
        ELSE \E inc \in PollIncrements(poller.retry_count, poller.build) :
             LET panics == poller.retry_poisoned \/ inc.panic
                 quits == ~panics /\ PollQuits(poller.options.quit_on_error,
                                               inc.val,
                                               poller.options.max_retries)
             IN /\ poller.retry_held_by = 0
                /\ poller' = IF poller.retry_poisoned THEN poller
                             ELSE [poller EXCEPT
                                      !.retry_count = inc.val,
                                      !.build = inc.build,
                                      !.retry_poisoned = inc.panic,
                                      !.retry_held_by = 0,
                                      !.is_active = IF quits THEN FALSE ELSE @]
                /\ poll_calls' = [poll_calls EXCEPT
                        ![c].result = IF quits THEN PollMaxRetries ELSE @,
                        ![c].pc = IF panics THEN "panicked"
                                  ELSE IF quits THEN "done" ELSE "while"]
    /\ UNCHANGED poll_env

\* Poller::stop, called by another task.
PollRunning(c) == poll_calls[c].pc \notin {"idle", "done", "panicked"}

PollStop ==
    /\ poller' = [poller EXCEPT !.is_active = FALSE]
    /\ UNCHANGED <<poll_calls, poll_env>>

\* Poller::status loads is_active and locks retry_count, then
\* execution_count: it waits while a guard of either is alive.
PollStatusWaits == poller.retry_held_by # 0 \/ poller.execution_held_by # 0

(***************************************************************************)
(* Specifications: one per primitive; the others stay as constructed.      *)
(***************************************************************************)
RetryRest ==
    /\ retry = [options |-> [max_retries |-> 0, delay |-> 0],
                overflow_checks |-> FALSE, retry_count |-> 0,
                last_error |-> None, pc |-> "while", result |-> NoResult]
    /\ retry_obs = [invocations |-> 0, errors |-> <<>>, ok |-> <<>>,
                    sleeps |-> 0, slept_after |-> {}]

DebRest ==
    /\ debouncer = [last_call |-> NoInstant, last_call_held_by |-> 0,
                    wait_duration |-> 0,
                    options |-> [leading |-> FALSE, trailing |-> TRUE],
                    is_cancelled |-> FALSE]
    /\ deb_calls = [c \in Calls |-> DebIdleFrame]

ThrRest ==
    /\ throttler = [last_execution |-> NoInstant,
                    last_execution_held_by |-> 0, wait_duration |-> 0,
                    options |-> [leading |-> FALSE, trailing |-> TRUE],
                    is_cancelled |-> FALSE]
    /\ thr_calls = [c \in Calls |-> ThrIdleFrame]

PollRest ==
    /\ poller = [options |-> [max_retries |-> 0, quit_on_error |-> FALSE,
                              immediate |-> FALSE, max_executions |-> 0],
                 build |-> "unobserved", is_active |-> FALSE,
                 retry_count |-> 0, execution_count |-> 0,
                 retry_held_by |-> 0, execution_held_by |-> 0,
                 retry_poisoned |-> FALSE, execution_poisoned |-> FALSE]
    /\ poll_calls = [c \in Calls |-> PollIdleFrame]
    /\ poll_env = [stop_on |-> {}, tasks |-> 0]

RetryOthers == <<clock, debVars, thrVars, pollVars>>
DebOthers == <<retryVars, thrVars, pollVars>>
ThrOthers == <<retryVars, debVars, pollVars>>
PollOthers == <<retryVars, clock, debVars, thrVars>>

RetryNext ==
    \/ RetryWhile /\ UNCHANGED RetryOthers
    \/ RetryFuncOk /\ UNCHANGED RetryOthers
    \/ RetryFuncErr /\ UNCHANGED RetryOthers
    \/ RetrySleep /\ UNCHANGED RetryOthers

DebNext ==
    \/ \E c \in Calls : DebExecuteNow(c) /\ UNCHANGED DebOthers
    \/ \E c \in Calls : DebExecuteRecord(c) /\ UNCHANGED DebOthers
    \/ \E c \in Calls : DebExecuteWake(c) /\ UNCHANGED DebOthers
    \/ \E c \in Calls : DebExecuteDecide(c) /\ UNCHANGED DebOthers
    \/ \E c \in Calls : DebFuncReturn(c) /\ UNCHANGED DebOthers
    \/ DebCancel /\ UNCHANGED DebOthers
    \/ Tick /\ UNCHANGED <<debVars, DebOthers>>

ThrNext ==
    \/ \E c \in Calls : ThrExecuteStart(c) /\ UNCHANGED ThrOthers
    \/ \E c \in Calls : ThrExecuteDecide(c) /\ UNCHANGED ThrOthers
    \/ \E c \in Calls : ThrFuncReturn(c) /\ UNCHANGED ThrOthers
    \/ ThrCancel /\ UNCHANGED ThrOthers
    \/ Tick /\ UNCHANGED <<thrVars, ThrOthers>>

PollNext ==
    \/ \E c \in Calls : PollStart(c) /\ UNCHANGED PollOthers
    \/ \E c \in Calls : PollImmediateReturn(c) /\ UNCHANGED PollOthers
    \/ \E c \in Calls : PollLoopHead(c) /\ UNCHANGED PollOthers
    \/ \E c \in Calls : PollWake(c) /\ UNCHANGED PollOthers
    \/ \E c \in Calls : PollTaskReturn(c) /\ UNCHANGED PollOthers
    \/ PollStop /\ UNCHANGED PollOthers

\* One start call, and stop() called by another task: no further start
\* call is made.
PollSingleNext ==
    \/ PollStart(1) /\ UNCHANGED PollOthers
    \/ PollImmediateReturn(1) /\ UNCHANGED PollOthers
    \/ PollLoopHead(1) /\ UNCHANGED PollOthers
    \/ PollWake(1) /\ UNCHANGED PollOthers
    \/ PollTaskReturn(1) /\ UNCHANGED PollOthers
    \/ PollStop /\ UNCHANGED PollOthers

\* start called again after stop(): a further start call is made only once
\* stop() has stored false while the first start call is in flight.
PollRestart(c) ==
    /\ PollRunning(1)
    /\ ~poller.is_active
    /\ PollStart(c)

PollRestartNext ==
    \/ PollStart(1) /\ UNCHANGED PollOthers
    \/ \E c \in Calls \ {1} : PollRestart(c) /\ UNCHANGED PollOthers
    \/ \E c \in Calls : PollImmediateReturn(c) /\ UNCHANGED PollOthers
    \/ \E c \in Calls : PollLoopHead(c) /\ UNCHANGED PollOthers
    \/ \E c \in Calls : PollWake(c) /\ UNCHANGED PollOthers
    \/ \E c \in Calls : PollTaskReturn(c) /\ UNCHANGED PollOthers
    \/ PollStop /\ UNCHANGED PollOthers

\* Every task invocation and every sleep completes, and the executor runs a
\* start call that can take a step.
PollProgress(c) ==
    \/ PollImmediateReturn(c) /\ UNCHANGED PollOthers
    \/ PollLoopHead(c) /\ UNCHANGED PollOthers
    \/ PollWake(c) /\ UNCHANGED PollOthers
    \/ PollTaskReturn(c) /\ UNCHANGED PollOthers

InitRetry == RetryInit /\ clock = 0 /\ DebRest /\ ThrRest /\ PollRest
InitDebounce == DebInit /\ clock = 0 /\ RetryRest /\ ThrRest /\ PollRest
InitThrottle == ThrInit /\ clock = 0 /\ RetryRest /\ DebRest /\ PollRest
InitPoller == PollInit /\ clock = 0 /\ RetryRest /\ DebRest /\ ThrRest

SpecRetry == InitRetry /\ [][RetryNext]_vars
SpecDebounce == InitDebounce /\ [][DebNext]_vars
SpecThrottle == InitThrottle /\ [][ThrNext]_vars
SpecPoller == InitPoller /\ [][PollNext]_vars
SpecPollerSingle ==
    InitPoller /\ [][PollSingleNext]_vars /\ WF_vars(PollProgress(1))

SpecPollerRestart == InitPoller /\ [][PollRestartNext]_vars

\* The three controllers, one instance of one of them in use in a behaviour:
\* a controller takes steps only while the other two are as constructed.
InitControllers == InitDebounce \/ InitThrottle \/ InitPoller

ControllersNext ==
    \/ ThrRest /\ PollRest /\ DebNext
    \/ DebRest /\ PollRest /\ ThrNext
    \/ DebRest /\ ThrRest /\ PollNext

SpecControllers == InitControllers /\ [][ControllersNext]_vars

(***************************************************************************)
(* Properties of with_retry (under SpecRetry)                              *)
(***************************************************************************)
RetryFailures == Len(retry_obs.errors)
RetryAllFailed == RetryFailures = retry_obs.invocations
RetryGaveUp == retry.pc = "done" /\ retry.result.tag = "RetryExhausted"

\* C1: an operation that fails on every invocation is invoked exactly
\* max_retries + 1 times and then with_retry returns Err(RetryExhausted): no
\* return before the (n+1)-th failure, no (n+2)-th invocation, and the call
\* does return (it does not panic instead).
C1_ExactlyNPlusOneAttempts ==
    RetryAllFailed =>
        /\ retry_obs.invocations <= retry.options.max_retries + 1
        /\ retry.pc # "panicked"
        /\ retry.pc = "done" =>
            /\ RetryGaveUp
            /\ retry_obs.invocations = retry.options.max_retries + 1

\* C2: once the operation has succeeded for the first time, on its k-th
\* invocation with k <= max_retries + 1, with_retry has returned Ok with that
\* invocation's value; there are exactly k invocations and no sleep after
\* the k-th.
C2_SuccessReturnsAtOnce ==
    (retry_obs.ok # <<>> /\ retry_obs.ok[1] <= retry.options.max_retries + 1) =>
        /\ retry.pc = "done"
        /\ retry.result = Ok(retry_obs.ok[2])
        /\ retry_obs.invocations = retry_obs.ok[1]
        /\ retry_obs.ok[1] \notin retry_obs.slept_after

C2_Witness ==
    /\ retry.pc = "done"
    /\ retry.result.tag = "Ok"
    /\ retry_obs.ok # <<>>
    /\ retry_obs.ok[1] = 2
    /\ retry.options.max_retries >= 1
    /\ retry.options.delay > 0

\* C3: when with_retry gives up, the error reports the configured
\* max_retries as the retry count and the error of the last failed attempt.
C3_ExhaustedReportsLastError ==
    RetryGaveUp =>
        /\ retry.result.val.retries = retry.options.max_retries
        /\ RetryFailures > 0
        /\ retry.result.val.last = retry_obs.errors[RetryFailures]

C3_Witness ==
    /\ RetryGaveUp
    /\ retry.options.max_retries = 2
    /\ retry_obs.errors = <<"e1", "e1", "e2">>

\* C4: with_retry sleeps exactly once after each failed attempt that is
\* followed by another attempt and never otherwise: not after the final
\* failed attempt, not after a success, not at all when delay is zero; when it
\* gives up after max_retries + 1 failures with delay > 0 it has slept
\* max_retries times.
C4_SleepsOnlyBetweenAttempts ==
    /\ retry_obs.sleeps = Cardinality(retry_obs.slept_after)
    /\ retry.options.delay = 0 => retry_obs.sleeps = 0
    /\ \A i \in retry_obs.slept_after :
        /\ i <= RetryFailures
        /\ i = retry_obs.invocations =>
            \/ retry.pc = "func"
            \/ /\ retry.pc = "while"
               /\ RetryLoopCond(retry.retry_count, retry.options.max_retries)
    /\ retry.options.delay > 0 =>
        /\ \A i \in 1 .. retry_obs.invocations - 1 : i \in retry_obs.slept_after
        /\ retry.pc = "func" =>
            \A i \in 1 .. retry_obs.invocations : i \in retry_obs.slept_after
        /\ RetryGaveUp =>
            /\ RetryFailures = retry.options.max_retries + 1
            /\ retry_obs.sleeps = retry.options.max_retries
    /\ retry.pc \in {"done", "panicked"} =>
        retry_obs.invocations \notin retry_obs.slept_after

C4_Witness ==
    /\ RetryGaveUp
    /\ retry.options.delay > 0
    /\ retry.options.max_retries = 2
    /\ retry_obs.sleeps = 2

\* C30: with_retry ends with RetryExhausted for a permanently failing (but
\* terminating) operation for every max_retries of the machine word type,
\* the maximum value included: the attempt counter retry_count, compared
\* with retry_count <= max_retries and incremented once per failure, never
\* overflows or wraps its w-bit range, so it always equals the number of
\* failures and the loop ends after max_retries + 1 of them.
C30_AttemptCounterNeverOverflows ==
    /\ retry.pc # "panicked"
    /\ retry.retry_count = RetryFailures
    /\ RetryFailures <= retry.options.max_retries + 1
    /\ RetryFailures = retry.options.max_retries + 1 =>
            retry.pc \in {"while", "done"}
    /\ (RetryAllFailed /\ retry.pc = "done") => RetryGaveUp

(***************************************************************************)
(* Properties of the Debouncer (under SpecDebounce)                        *)
(***************************************************************************)
DebTrailingOnly == ~debouncer.options.leading /\ debouncer.options.trailing
DebStarted(c) == deb_calls[c].pc # "idle"
DebDebounced == General("Function execution was debounced")
DebCancelled == General("Debouncer was cancelled")

\* Another call recorded its timestamp, less than wait after call c's,
\* while c was still suspended in its wait.
DebSuperseded(c) == deb_calls[c].superseded

\* Every call but the last was superseded: the calls form one burst.
DebBurst ==
    /\ \A c \in Calls : DebStarted(c)
    /\ \A c \in Calls : c + 1 \in Calls => DebSuperseded(c)

\* No other call was made within wait of call c, before or after it.
DebIsolated(c) ==
    \A b \in Calls \ {c} :
        \/ ~DebStarted(b)
        \/ deb_calls[b].now + debouncer.wait_duration <= deb_calls[c].now
        \/ deb_calls[c].now + debouncer.wait_duration <= deb_calls[b].now

\* C5: with leading=false and trailing=true (and no cancellation) a call
\* that is superseded while it waits fails with the "debounced" rejection
\* without invoking its operation, so a burst of calls executes at most one
\* operation.
C5_SupersededCallRejected ==
    (DebTrailingOnly /\ ~debouncer.is_cancelled) =>
        /\ \A c \in Calls :
            (DebStarted(c) /\ DebSuperseded(c)) =>
                /\ deb_calls[c].invoked = 0
                /\ deb_calls[c].pc = "done" => deb_calls[c].result = DebDebounced
        /\ DebBurst =>
            Cardinality({c \in Calls : deb_calls[c].invoked > 0}) <= 1

\* C6: with leading=true every execute call invokes its operation exactly
\* once, without sleeping first, and returns Ok with the operation's value,
\* whatever calls were made before it and however recently.
C6_LeadingAlwaysExecutes ==
    debouncer.options.leading =>
        \A c \in Calls :
            /\ ~deb_calls[c].slept
            /\ deb_calls[c].pc \in {"idle", "record", "func", "done"}
            /\ deb_calls[c].pc \in {"idle", "record"} => deb_calls[c].invoked = 0
            /\ deb_calls[c].pc \in {"func", "done"} => deb_calls[c].invoked = 1
            /\ deb_calls[c].pc = "done" =>
                deb_calls[c].result = Ok(FuncValue(c))

C6_Witness ==
    /\ debouncer.options.leading
    /\ debouncer.wait_duration > 0
    /\ \A c \in Calls : deb_calls[c].pc = "done" /\ deb_calls[c].result.tag = "Ok"
    /\ deb_calls[2].now < deb_calls[1].now + debouncer.wait_duration

\* C7: with leading=false, trailing=true and no cancellation, an isolated
\* execute call invokes its operation exactly once, only after its wait has
\* elapsed, and returns Ok with the operation's value.
C7_IsolatedTrailingExecutes ==
    (DebTrailingOnly /\ ~debouncer.is_cancelled) =>
        \A c \in Calls :
            (DebStarted(c) /\ DebIsolated(c)) =>
                /\ deb_calls[c].pc \in {"record", "sleep", "decide"} =>
                    deb_calls[c].invoked = 0
                /\ deb_calls[c].pc = "func" =>
                    /\ deb_calls[c].invoked = 1
                    /\ deb_calls[c].slept
                    /\ clock >= deb_calls[c].now + debouncer.wait_duration
                /\ deb_calls[c].pc = "done" =>
                    /\ deb_calls[c].invoked = 1
                    /\ deb_calls[c].slept
                    /\ deb_calls[c].result = Ok(FuncValue(c))

C7_Witness ==
    /\ DebTrailingOnly
    /\ ~debouncer.is_cancelled
    /\ debouncer.wait_duration = 2
    /\ deb_calls[1].pc = "done"
    /\ deb_calls[1].result.tag = "Ok"
    /\ deb_calls[1].now = 0
    /\ clock = 2
    /\ DebIsolated(1)

\* C8: with a non-leading policy, an execute call that cancel() precedes, at
\* any time before the call has finished its wait, returns an error and never
\* invokes its operation.
C8_CancelBeforeWakeFails ==
    ~debouncer.options.leading =>
        \A c \in Calls :
            deb_calls[c].cancel_before_wake =>
                /\ deb_calls[c].invoked = 0
                /\ deb_calls[c].pc \in {"idle", "record", "sleep", "done"}
                /\ deb_calls[c].pc = "done" => deb_calls[c].result = DebCancelled

C8_Witness ==
    /\ DebTrailingOnly
    /\ debouncer.wait_duration > 0
    /\ deb_calls[1].cancel_before_wake
    /\ deb_calls[1].pc = "done"
    /\ deb_calls[1].slept
    /\ ~deb_calls[2].cancel_before_wake
    /\ deb_calls[2].pc = "done"

\* C9, as claimed: with leading=false and trailing=true, an isolated execute
\* call made after an earlier call has failed (rejected or cancelled) still
\* invokes its operation and returns Ok.
C9_ReusableAfterFailure ==
    DebTrailingOnly =>
        \A c \in Calls :
            (deb_calls[c].after_failure /\ DebIsolated(c)
                    /\ deb_calls[c].pc = "done") =>
                /\ deb_calls[c].result.tag = "Ok"
                /\ deb_calls[c].invoked = 1

\* C9, amended: with leading=false and trailing=true an execute call fails
\* only by cancellation, and cancellation is permanent: an execute call made
\* after an earlier call has failed finds the Debouncer cancelled, never
\* invokes its operation and fails with the cancellation error.
C9_CancellationIsPermanent ==
    DebTrailingOnly =>
        /\ \A c \in Calls :
            deb_calls[c].pc = "done" =>
                deb_calls[c].result \in {Ok(FuncValue(c)), DebCancelled}
        /\ \A c \in Calls :
            deb_calls[c].after_failure =>
                /\ debouncer.is_cancelled
                /\ deb_calls[c].invoked = 0
                /\ deb_calls[c].pc \in {"record", "sleep", "done"}
                /\ deb_calls[c].pc = "done" => deb_calls[c].result = DebCancelled

C9_Witness ==
    /\ DebTrailingOnly
    /\ deb_calls[1].result = DebCancelled
    /\ deb_calls[2].after_failure
    /\ DebIsolated(2)
    /\ deb_calls[2].pc = "done"

(***************************************************************************)
(* Properties of the Throttler (under SpecThrottle)                        *)
(***************************************************************************)
ThrThrottled == General("Function execution was throttled")
ThrCancelled == General("Throttler was cancelled")

\* The first call: the one that found no last-execution timestamp, that is,
\* the first to take the last_execution lock.
ThrFirst(c) == thr_calls[c].decided /\ thr_calls[c].seen_last = NoInstant

\* C10: on a non-cancelled Throttler with leading=true the first execute
\* call invokes its operation and returns Ok with its value, and every
\* further call made before wait has elapsed since the first call returns an
\* error without invoking its operation.
C10_LeadingFirstRunsRestThrottled ==
    (throttler.options.leading /\ ~throttler.is_cancelled) =>
        /\ \A c \in Calls :
            /\ thr_calls[c].pc = "done" => thr_calls[c].decided
            /\ thr_calls[c].decided => \E f \in Calls : ThrFirst(f)
        /\ \A f \in Calls :
            ThrFirst(f) =>
                /\ thr_calls[f].invoked = 1
                /\ thr_calls[f].pc \in {"func", "done"}
                /\ thr_calls[f].pc = "done" =>
                    thr_calls[f].result = Ok(FuncValue(f))
                /\ \A c \in Calls \ {f} :
                    ( /\ thr_calls[c].decided
                      /\ thr_calls[f].now <= thr_calls[c].now
                      /\ thr_calls[c].now <
                            thr_calls[f].now + throttler.wait_duration ) =>
                        /\ thr_calls[c].invoked = 0
                        /\ thr_calls[c].pc = "done"
                        /\ thr_calls[c].result = ThrThrottled

C10_Witness ==
    /\ throttler.options.leading
    /\ ~throttler.is_cancelled
    /\ throttler.wait_duration = 2
    /\ ThrFirst(1)
    /\ thr_calls[1].pc = "done"
    /\ thr_calls[1].result.tag = "Ok"
    /\ thr_calls[2].now = thr_calls[1].now + 1
    /\ thr_calls[2].result = ThrThrottled

\* An accepted call: the decision under the lock was to run the operation.
ThrAccepted(c) == thr_calls[c].decided /\ thr_calls[c].invoked > 0

\* C11: with wait > 0, in every interleaving, the call timestamps of any two
\* accepted execute calls are at least wait apart: two calls racing in the
\* same window are never both accepted.
C11_AcceptedCallsWaitApart ==
    throttler.wait_duration > 0 =>
        \A c, d \in Calls :
            (c # d /\ ThrAccepted(c) /\ ThrAccepted(d)) =>
                \/ thr_calls[c].now >= thr_calls[d].now + throttler.wait_duration
                \/ thr_calls[d].now >= thr_calls[c].now + throttler.wait_duration

\* Two calls race in one window, the later call takes the lock first and is
\* accepted, the earlier one is then rejected.
C11_Witness ==
    /\ throttler.wait_duration = 2
    /\ throttler.options.leading
    /\ thr_calls[1].now < thr_calls[2].now
    /\ thr_calls[2].now < thr_calls[1].now + throttler.wait_duration
    /\ ThrFirst(2)
    /\ ThrAccepted(2)
    /\ thr_calls[1].decided
    /\ thr_calls[1].result = ThrThrottled


\* C12: once cancel() has been called, every execute call made afterwards,
\* under every policy and at every time, returns the cancellation error at
\* once, without invoking its operation and without changing the
\* last-execution timestamp.
C12_CancelledThrottlerRejects ==
    [][\A c \in Calls :
        ( /\ throttler.is_cancelled
          /\ thr_calls[c].pc = "idle"
          /\ thr_calls'[c].pc # "idle" ) =>
            /\ thr_calls'[c].pc = "done"
            /\ thr_calls'[c].result = ThrCancelled
            /\ thr_calls'[c].invoked = 0
            /\ ~thr_calls'[c].decided
            /\ throttler'.last_execution = throttler.last_execution]_vars

\* A call rejected for cancellation although the window of the only earlier
\* execution is over, so that it would have been accepted otherwise.
C12_Witness ==
    /\ throttler.is_cancelled
    /\ throttler.wait_duration > 0
    /\ thr_calls[1].result = Ok(FuncValue(1))
    /\ throttler.last_execution = Some(thr_calls[1].now)
    /\ clock >= thr_calls[1].now + throttler.wait_duration
    /\ thr_calls[2].pc = "done"
    /\ thr_calls[2].result = ThrCancelled
    /\ thr_calls[2].invoked = 0

ThrTrailingOnly == ~throttler.options.leading /\ throttler.options.trailing

\* C13 as stated: with leading=false and trailing=true every execute call is
\* rejected as throttled and no operation is ever invoked, however many
\* calls are made and however much time passes between them.
C13_TrailingOnlyNeverExecutes ==
    ThrTrailingOnly =>
        \A c \in Calls :
            /\ thr_calls[c].invoked = 0
            /\ thr_calls[c].decided => thr_calls[c].result = ThrThrottled

\* C13, amended: with leading=false and trailing=true the first call (the
\* one that finds no last-execution timestamp) is rejected as throttled
\* without invoking its operation, and a later call is rejected as throttled
\* exactly when less than wait lies between the recorded timestamp and its
\* own; otherwise it invokes its operation.
C13_TrailingOnlyFirstRejected ==
    ThrTrailingOnly =>
        \A c \in Calls :
            thr_calls[c].decided =>
                /\ ThrFirst(c) =>
                    thr_calls[c].invoked = 0 /\ thr_calls[c].result = ThrThrottled
                /\ ~ThrFirst(c) =>
                    /\ thr_calls[c].invoked = 1 <=>
                            DurationSince(thr_calls[c].now,
                                          InstantOf(thr_calls[c].seen_last))
                                >= throttler.wait_duration
                    /\ thr_calls[c].invoked = 0 =>
                            thr_calls[c].result = ThrThrottled

C13_Witness ==
    /\ ThrTrailingOnly
    /\ throttler.wait_duration = 2
    /\ ThrFirst(1)
    /\ thr_calls[1].result = ThrThrottled
    /\ thr_calls[2].now >= thr_calls[1].now + throttler.wait_duration
    /\ thr_calls[2].invoked = 1
    /\ thr_calls[2].result = Ok(FuncValue(2))

\* C20: an execute call rejected because less than wait has elapsed since
\* the last-execution timestamp leaves the Throttler unchanged: the timestamp
\* is not moved to the rejected call's time.
C20_RejectionLeavesStateUnchanged ==
    [][\A c \in Calls :
        ( /\ thr_calls[c].pc = "decide"
          /\ throttler.last_execution # NoInstant
          /\ thr_calls'[c].pc = "done" ) =>
            /\ thr_calls'[c].result = ThrThrottled
            /\ throttler' = throttler]_vars

\* A call rejected inside the window of an earlier one; the timestamp is
\* still the earlier call's.
C20_Witness ==
    /\ throttler.wait_duration = 2
    /\ ThrFirst(1)
    /\ thr_calls[2].decided
    /\ thr_calls[2].result = ThrThrottled
    /\ thr_calls[2].now = thr_calls[1].now + 1
    /\ throttler.last_execution = Some(thr_calls[1].now)

(***************************************************************************)
(* Properties of the Poller (under SpecPoller)                             *)
(***************************************************************************)
PollDone(c) == poll_calls[c].pc = "done"

\* C14: start returns Ok(v) only for the value v of the task invocation that
\* has just completed, with stop_condition(v) true; it returns at the first
\* task invocation whose Ok value satisfies stop_condition; and when that is
\* the immediate invocation, it returns without an interval sleep.
C14_ReturnsFirstSatisfyingResult ==
    \A c \in Calls :
        /\ poll_calls[c].result.tag = "Ok" =>
            /\ poll_calls[c].result = poll_calls[c].satisfied
            /\ poll_calls[c].result.val \in poll_env.stop_on
        /\ poll_calls[c].satisfied # NoResult =>
            /\ PollDone(c)
            /\ poll_calls[c].result = poll_calls[c].satisfied
        /\ poll_calls[c].satisfied_in = "immediate" =>
            /\ poller.options.immediate
            /\ ~poll_calls[c].slept

\* The second loop invocation of a call is the first to satisfy the
\* stop_condition, and the call returns its value.
C14_Witness ==
    /\ poll_env.tasks = 2
    /\ poll_calls[2].pc = "idle"
    /\ poller.options.immediate
    /\ PollDone(1)
    /\ poll_calls[1].satisfied_in = "loop"
    /\ poll_calls[1].result = Ok("v2")
    /\ poll_calls[1].slept

\* C16: whenever a start call has returned and no other start call is in
\* flight, is_active is false, whichever way the call ended.
C16_InactiveAfterReturn ==
    \A c \in Calls :
        (PollDone(c) /\ \A d \in Calls \ {c} : ~PollRunning(d)) =>
            ~poller.is_active

\* A step in which call c's task invocation inside the loop fails and the
\* retry counter is incremented for it.
PollLoopFailure(c) ==
    /\ poll_calls[c].pc = "task"
    /\ poll_calls'[c].pc # "task"
    /\ poller'.retry_count # poller.retry_count

\* C17: start returns Err(PollingError("Max retries exceeded")) exactly in
\* a step where a task invocation inside the loop fails, quit_on_error is
\* true and the incremented retry counter is >= max_retries; with
\* quit_on_error = false a task failure never makes start return.
C17_MaxRetriesExactlyOnBudget ==
    [][\A c \in Calls :
        /\ ( /\ poll_calls'[c].result = PollMaxRetries
             /\ poll_calls[c].result # PollMaxRetries ) =>
                /\ PollLoopFailure(c)
                /\ poller.options.quit_on_error
                /\ poller'.retry_count >= poller.options.max_retries
        /\ ( /\ PollLoopFailure(c)
             /\ poller.options.quit_on_error
             /\ poller'.retry_count >= poller.options.max_retries ) =>
                /\ poll_calls'[c].pc = "done"
                /\ poll_calls'[c].result = PollMaxRetries
        /\ ( /\ ~poller.options.quit_on_error
             /\ poll_calls[c].pc \in {"itask", "task"}
             /\ poller'.retry_count # poller.retry_count ) =>
                poll_calls'[c].pc # "done"]_vars

\* The failure of the immediate invocation has brought the counter to
\* max_retries without ending the call; the next failure, in the loop, does.
C17_Witness ==
    /\ poller.options.immediate
    /\ poller.options.quit_on_error
    /\ poller.options.max_retries = 1
    /\ poller.retry_count = 2
    /\ poll_env.tasks = 1
    /\ PollDone(1)
    /\ poll_calls[1].result = PollMaxRetries

(***************************************************************************)
(* Properties of one start call (under SpecPollerSingle)                   *)
(***************************************************************************)
\* stop() has taken effect on the running call: it stored false after the
\* call stored true, and no other start call exists to store true again.
PollStoppedWhileRunning == PollRunning(1) /\ ~poller.is_active
PollNeverSatisfied == poll_env.stop_on = {}

\* C15 as stated: if stop() is called while a start call runs with a
\* stop_condition that never holds, every task invocation and sleep
\* completes and no other start call is made, then the call eventually
\* returns Err(PollingError("Polling stopped")).
C15_StopEndsWithPollingStopped ==
    (PollStoppedWhileRunning /\ PollNeverSatisfied) ~>
        (PollDone(1) /\ poll_calls[1].result = PollStopped)

\* C15, amended: under the same assumptions the call eventually ends: it
\* returns "Polling stopped", or "Max retries exceeded" when the invocation
\* in flight fails with quit_on_error set, or it panics on an overflowing
\* counter increment.
C15_StopEndsTheCall ==
    /\ (PollStoppedWhileRunning /\ PollNeverSatisfied) ~>
            \/ poll_calls[1].pc = "panicked"
            \/ PollDone(1) /\ poll_calls[1].result \in {PollStopped, PollMaxRetries}
    /\ [](poll_calls[1].result = PollMaxRetries => poller.options.quit_on_error)

\* The call left the loop because of stop(): its result is "Polling
\* stopped" though the execution budget is not used up.
C15_Witness ==
    /\ PollNeverSatisfied
    /\ PollDone(1)
    /\ poll_calls[1].result = PollStopped
    /\ poll_env.tasks >= 1
    /\ poller.execution_count <= poller.options.max_executions
    /\ ~poller.is_active

PollFiniteBudget == poller.options.max_executions < UsizeMax

\* C18: on a fresh Poller with a finite max_executions = m (less than
\* usize::MAX, the default that stands for no limit), one start call
\* invokes the task at most m times inside the loop, the execution counter
\* exceeds m only in the step that ends the call with "Polling stopped",
\* and the call always ends.
C18_BoundedByMaxExecutions ==
    /\ [](PollFiniteBudget =>
            /\ poll_env.tasks <= poller.options.max_executions
            /\ poller.execution_count <= poller.options.max_executions + 1
            /\ poller.execution_count > poller.options.max_executions =>
                    PollDone(1) /\ poll_calls[1].result = PollStopped)
    /\ (PollFiniteBudget /\ PollRunning(1)) ~> PollDone(1)

\* A call that used up its budget of one loop invocation, never stopped.
C18_Witness ==
    /\ poller.options.max_executions = 1
    /\ poll_env.tasks = 1
    /\ poller.execution_count = 2
    /\ poller.is_active
    /\ PollDone(1)
    /\ poll_calls[1].result = PollStopped

(***************************************************************************)
(* Properties of all controllers (under SpecControllers)                   *)
(***************************************************************************)
\* The calls whose caller-supplied operation is running.
DebInFlight == {c \in Calls : deb_calls[c].pc = "func"}
ThrInFlight == {c \in Calls : thr_calls[c].pc = "func"}
PollInFlight == {c \in Calls : poll_calls[c].pc \in {"itask", "task"}}

\* C19 as stated: on one controller instance the caller-supplied operation
\* is never running at the same time as another operation invocation made
\* through that controller, in every interleaving of its calls.
C19_OperationsNeverOverlap ==
    /\ Cardinality(DebInFlight) <= 1
    /\ Cardinality(ThrInFlight) <= 1
    /\ Cardinality(PollInFlight) <= 1

\* C19, amended: one call never overlaps its own invocations: an execute
\* call invokes its operation at most once, and an operation is in flight
\* only in a call that has not returned.
C19_OneOperationPerCall ==
    \A c \in Calls :
        /\ deb_calls[c].invoked <= 1
        /\ thr_calls[c].invoked <= 1
        /\ c \in DebInFlight =>
                deb_calls[c].invoked = 1 /\ deb_calls[c].result = NoResult
        /\ c \in ThrInFlight =>
                thr_calls[c].invoked = 1 /\ thr_calls[c].result = NoResult
        /\ c \in PollInFlight => poll_calls[c].result = NoResult

\* Two execute calls on one leading Debouncer with their operations running
\* at the same time.
C19_Witness ==
    /\ debouncer.options.leading
    /\ DebInFlight = {1, 2}
    /\ deb_calls[1].invoked = 1
    /\ deb_calls[2].invoked = 1


\* C21: for a non-cancelled Throttler, an execute call at time t invokes its
\* operation if and only if either (a) no timestamp is recorded yet and
\* leading is true, or (b) a timestamp t0 is recorded and t - t0 >= wait
\* (the time from t0 to t as Instant subtraction gives it); in case (b) and
\* in every first call, whatever leading is, the recorded timestamp becomes t.
C21_ExecutesIffFirstLeadingOrWindowOver ==
    [][\A c \in Calls :
        (thr_calls[c].pc = "decide" /\ thr_calls'[c].pc # "decide") =>
            LET t0 == throttler.last_execution
                t == thr_calls[c].now
                first == t0 = NoInstant
                caseA == first /\ throttler.options.leading
                caseB == /\ ~first
                         /\ DurationSince(t, InstantOf(t0))
                                >= throttler.wait_duration
            IN /\ thr_calls'[c].invoked = 1 <=> (caseA \/ caseB)
               /\ thr_calls'[c].invoked = 0 <=> ~(caseA \/ caseB)
               /\ (caseB \/ first) => throttler'.last_execution = Some(t)]_vars

\* A first call with leading=false takes the slot without running anything,
\* and a second call exactly wait later runs and moves the timestamp.
C21_Witness ==
    /\ ~throttler.options.leading
    /\ ~throttler.is_cancelled
    /\ throttler.wait_duration = 2
    /\ ThrFirst(1)
    /\ thr_calls[1].invoked = 0
    /\ thr_calls[2].now = thr_calls[1].now + throttler.wait_duration
    /\ thr_calls[2].seen_last = Some(thr_calls[1].now)
    /\ thr_calls[2].invoked = 1
    /\ throttler.last_execution = Some(thr_calls[2].now)

(***************************************************************************)
(* Further properties of the Debouncer (under SpecDebounce)                *)
(***************************************************************************)
\* The calls that have recorded their timestamp.
DebRecorded == {c \in Calls : deb_calls[c].pc \notin {"idle", "record"}}

\* What is_pending() returns in the current state.
DebPendingNow ==
    DebIsPending(debouncer.last_call, clock, debouncer.wait_duration)

\* C22: every Debouncer execute call records its own start time as the
\* last-call timestamp before doing anything else, for every policy and
\* whether or not the Debouncer is cancelled, and is_pending() is true
\* exactly when a timestamp is recorded and less than wait has elapsed since
\* the most recently recorded one; with no execute call yet it is false.
C22_RecordsFirstAndPendingWithinWait ==
    /\ [](/\ DebRecorded = {} =>
                (debouncer.last_call = NoInstant /\ ~DebPendingNow)
          /\ DebRecorded # {} =>
                \E c \in DebRecorded :
                    /\ debouncer.last_call = Some(deb_calls[c].now)
                    /\ DebPendingNow <=>
                        clock - deb_calls[c].now < debouncer.wait_duration)
    /\ [][\A c \in Calls :
            /\ (deb_calls[c].pc = "idle" /\ deb_calls'[c].pc # "idle") =>
                    /\ deb_calls'[c].pc = "record"
                    /\ deb_calls'[c].now = clock
                    /\ deb_calls'[c].invoked = 0
                    /\ debouncer' = debouncer
            /\ (deb_calls[c].pc = "record" /\ deb_calls'[c].pc # "record") =>
                    /\ deb_calls'[c].pc \in {"func", "sleep"}
                    /\ debouncer'.last_call = Some(deb_calls[c].now)
                    /\ DebPendingNow' <=>
                        clock' - deb_calls[c].now < debouncer.wait_duration
            /\ debouncer'.last_call # debouncer.last_call =>
                    \E d \in Calls : /\ deb_calls[d].pc = "record"
                                     /\ deb_calls'[d].pc # "record"]_vars

\* A call made on a cancelled leading Debouncer has recorded its start time,
\* and is_pending() is true one time unit later, with wait = 2.
C22_Witness ==
    /\ debouncer.is_cancelled
    /\ debouncer.options.leading
    /\ debouncer.wait_duration = 2
    /\ deb_calls[1].cancel_before_wake
    /\ deb_calls[1].pc = "func"
    /\ debouncer.last_call = Some(deb_calls[1].now)
    /\ clock = deb_calls[1].now + 1
    /\ DebPendingNow

\* C29: for a Debouncer with leading=true cancel() has no effect on
\* execute: an execute call made after cancel() still invokes its
\* operation, without a sleep, and returns Ok with its value, because the
\* leading path returns before the cancellation flag is read.
C29_LeadingIgnoresCancel ==
    debouncer.options.leading =>
        \A c \in Calls :
            (deb_calls[c].cancel_before_wake /\ DebStarted(c)) =>
                /\ debouncer.is_cancelled
                /\ deb_calls[c].pc \in {"record", "func", "done"}
                /\ deb_calls[c].pc = "record" => ENABLED DebExecuteRecord(c)
                /\ deb_calls[c].pc # "record" =>
                        deb_calls[c].invoked = 1 /\ ~deb_calls[c].slept
                /\ deb_calls[c].pc = "done" =>
                        deb_calls[c].result = Ok(FuncValue(c))

\* cancel() was called before either call had recorded its timestamp; both
\* calls invoked their operation and returned Ok on the cancelled Debouncer.
C29_Witness ==
    /\ debouncer.options.leading
    /\ debouncer.is_cancelled
    /\ \A c \in Calls :
            /\ deb_calls[c].cancel_before_wake
            /\ deb_calls[c].pc = "done"
            /\ deb_calls[c].invoked = 1
            /\ deb_calls[c].result = Ok(FuncValue(c))

(***************************************************************************)
(* Further properties of one start call (under SpecPollerSingle)           *)
(***************************************************************************)
\* The start call is suspended in its interval sleep and stop() has been
\* called since the sleep began: the head of the iteration saw is_active
\* true, and no other start call exists to store true again.
PollStoppedInSleep == poll_calls[1].pc = "sleep" /\ ~poller.is_active

\* C23: if stop() is called on a Poller while a start call is suspended in
\* its interval sleep, and no other start call re-activates the Poller, the
\* task is not invoked after that sleep: the call leaves the loop at the
\* test after the sleep and returns Err(PollingError("Polling stopped")).
C23_StopDuringSleepSkipsTask ==
    [][(PollStoppedInSleep /\ poll_calls'[1] # poll_calls[1]) =>
            /\ poll_calls'[1].pc = "done"
            /\ poll_calls'[1].result = PollStopped
            /\ poll_env'.tasks = poll_env.tasks
            /\ poller' = poller]_vars

\* stop() came during the first sleep: the call returned "Polling stopped"
\* with no task invocation in the loop and its budget not used up.
C23_Witness ==
    /\ ~poller.options.immediate
    /\ PollDone(1)
    /\ poll_calls[1].slept
    /\ poll_calls[1].result = PollStopped
    /\ poll_env.tasks = 0
    /\ ~poller.is_active
    /\ poller.execution_count = 1
    /\ poller.options.max_executions >= 1

\* The largest value the retry counter takes in one start call with
\* quit_on_error: the first failure inside the loop with the counter at
\* max_retries or above ends the call, and a failure of the immediate
\* invocation is counted before the loop.
PollRetryCeiling ==
    LET least == IF poller.options.immediate THEN 2 ELSE 1
    IN IF poller.options.max_retries >= least
       THEN poller.options.max_retries
       ELSE least

\* C26 as stated: in a single start call on a fresh Poller with
\* quit_on_error=true the retry counter never exceeds max_retries: for
\* every max_retries (0 included) and both settings of immediate, start has
\* returned "Max retries exceeded" no later than the failure that brings
\* the counter to max_retries.
C26_RetryCountWithinBudget ==
    poller.options.quit_on_error =>
        /\ poller.retry_count <= poller.options.max_retries
        /\ ( /\ poller.retry_count >= 1
             /\ poller.retry_count = poller.options.max_retries ) =>
                PollDone(1) /\ poll_calls[1].result = PollMaxRetries

\* C26, amended: in a single start call on a fresh Poller with
\* quit_on_error=true, a failure of the immediate invocation is counted
\* without ending the call, and start returns "Max retries exceeded" at the
\* first failure inside the loop that leaves the counter at max_retries or
\* above.  The counter never exceeds the larger of max_retries and 1 with
\* immediate=false, or the larger of max_retries and 2 with immediate=true;
\* when it has that value the call has returned "Max retries exceeded",
\* and it returns so only with the counter at 1 or more and at max_retries
\* or above.
C26_RetryCountWithinCeiling ==
    poller.options.quit_on_error =>
        /\ poller.retry_count <= PollRetryCeiling
        /\ poller.retry_count = PollRetryCeiling =>
                PollDone(1) /\ poll_calls[1].result = PollMaxRetries
        /\ poll_calls[1].result = PollMaxRetries =>
                /\ poller.retry_count >= 1
                /\ poller.retry_count >= poller.options.max_retries
        /\ ~poller.retry_poisoned

\* With max_retries = 0 and immediate=true the immediate invocation and the
\* first invocation in the loop have failed: the counter is 2 on return.
C26_Witness ==
    /\ poller.options.quit_on_error
    /\ poller.options.immediate
    /\ poller.options.max_retries = 0
    /\ poller.retry_count = 2
    /\ poll_env.tasks = 1
    /\ PollDone(1)
    /\ poll_calls[1].result = PollMaxRetries

(***************************************************************************)
(* Further properties of the Poller (under SpecPoller)                     *)
(***************************************************************************)
\* C24: a Poller's retry_count and execution_count are 0 on construction
\* and no operation ever decreases or resets them: over any sequence of
\* start calls they only grow, so a start call on a Poller whose
\* execution_count has already reached max_executions leaves the interval
\* loop on its first iteration and returns "Polling stopped" without
\* invoking the task in the loop.
C24_CountersOnlyGrow ==
    /\ (poller.retry_count = 0 /\ poller.execution_count = 0)
    /\ [][/\ poller'.retry_count >= poller.retry_count
          /\ poller'.execution_count >= poller.execution_count
          /\ \A c \in Calls :
                ( /\ poll_calls[c].pc = "while"
                  /\ poll_calls'[c].pc # "while"
                  /\ ~poll_calls[c].slept
                  /\ poller.execution_count >= poller.options.max_executions ) =>
                    /\ poll_calls'[c].pc = "done"
                    /\ poll_calls'[c].result = PollStopped
                    /\ poll_env'.tasks = poll_env.tasks]_vars

(***************************************************************************)
(* Further properties of all controllers (under SpecControllers)           *)
(***************************************************************************)
\* C25: a cancel()/stop() signal that arrives after a controller call has
\* invoked the caller's operation does not change that call's outcome:
\* whatever has been signalled since, a Debouncer or Throttler execute that
\* invoked its operation is awaiting it or has returned Ok with its value,
\* and a Poller start whose task returned a result that satisfies
\* stop_condition has returned Ok with that result.
C25_SignalAfterInvocationKeepsOutcome ==
    \A c \in Calls :
        /\ deb_calls[c].invoked >= 1 =>
                \/ c \in DebInFlight
                \/ /\ deb_calls[c].pc = "done"
                   /\ deb_calls[c].result = Ok(FuncValue(c))
        /\ thr_calls[c].invoked >= 1 =>
                \/ c \in ThrInFlight
                \/ /\ thr_calls[c].pc = "done"
                   /\ thr_calls[c].result = Ok(FuncValue(c))
        /\ poll_calls[c].satisfied # NoResult =>
                /\ poll_calls[c].pc = "done"
                /\ poll_calls[c].result = Ok(poll_calls[c].satisfied.val)

\* cancel() came while the operation of a call on a leading Debouncer was
\* running: the flag is set, the call was in none of its earlier positions
\* when it was set, and the operation has not returned yet.
C25_Witness ==
    /\ debouncer.options.leading
    /\ debouncer.is_cancelled
    /\ ~deb_calls[1].cancel_before_wake
    /\ deb_calls[1].invoked = 1
    /\ 1 \in DebInFlight

(***************************************************************************)
(* start after stop() (under SpecPollerRestart)                            *)
(***************************************************************************)
\* A further start call has been made; it was made after stop() was called
\* with the first start call in flight.
PollRestarted == \E c \in Calls \ {1} : poll_calls[c].pc # "idle"

\* C27: once stop() has been called on a Poller, every start call that was
\* in flight at that moment returns without a further task invocation
\* beyond one already running, even if another start call is made on the
\* same Poller afterwards: a later start cannot re-activate the loop of an
\* earlier, stopped start call.
C27_LaterStartDoesNotReactivate ==
    [][PollRestarted =>
            ~(poll_calls[1].pc = "sleep" /\ poll_calls'[1].pc = "task")]_vars

(***************************************************************************)
(* Locks (under SpecControllers)                                           *)
(***************************************************************************)
\* The calls suspended in a sleep or awaiting the caller's operation.
DebSuspended == {c \in Calls : deb_calls[c].pc \in {"sleep", "func"}}
ThrSuspended == {c \in Calls : thr_calls[c].pc = "func"}
PollSuspended == {c \in Calls : poll_calls[c].pc \in {"itask", "sleep", "task"}}

\* The calls that own a guard of a bookkeeping Mutex.
LockHolders ==
    {debouncer.last_call_held_by, throttler.last_execution_held_by,
     poller.retry_held_by, poller.execution_held_by} \ {0}

\* C28: no Debouncer, Throttler or Poller call holds a bookkeeping lock
\* (last_call, last_execution, retry_count, execution_count) while it is
\* suspended in a sleep or awaiting the caller's operation; therefore
\* cancel(), stop(), status() and is_pending() never wait for a call in
\* flight, and no interleaving of calls on one controller deadlocks: a call
\* that is not suspended can always take its next step.
C28_NoLockHeldWhileSuspended ==
    /\ LockHolders \cap (DebSuspended \cup ThrSuspended \cup PollSuspended) = {}
    /\ ENABLED DebCancel
    /\ ENABLED ThrCancel
    /\ ENABLED PollStop
    /\ ~DebIsPendingWaits
    /\ ~PollStatusWaits
    /\ \A c \in Calls :
        /\ deb_calls[c].pc = "record" => ENABLED DebExecuteRecord(c)
        /\ deb_calls[c].pc = "decide" => ENABLED DebExecuteDecide(c)
        /\ thr_calls[c].pc = "decide" => ENABLED ThrExecuteDecide(c)
        /\ poll_calls[c].pc = "itask" => ENABLED PollImmediateReturn(c)
        /\ poll_calls[c].pc = "task" => ENABLED PollTaskReturn(c)
        /\ (poll_calls[c].pc = "while" /\ poll_env.tasks < MaxTasks) =>
                ENABLED PollLoopHead(c)

\* One call is suspended in its sleep and another awaits its operation,
\* both having taken the last_call lock in turn, and cancel() has completed.
C28_Witness ==
    /\ deb_calls[1].pc = "sleep"
    /\ deb_calls[2].pc = "func"
    /\ deb_calls[2].slept
    /\ debouncer.is_cancelled
    /\ debouncer.last_call = Some(deb_calls[2].now)
    /\ LockHolders = {}
=============================================================================
